---- MODULE Spec2Model ----
(***************************************************************************)
(* A model of the CHIP-8 interpreter of chip8.rs (src/src/lib.rs,          *)
(* src/src/main.rs): the machine state of struct Chip8, the decoder        *)
(* Inst::from, the executor Chip8::exec, the cycle Chip8::tick with its    *)
(* timer update, and the host callbacks key_down_event / key_up_event /    *)
(* draw, driven the way main drives them: default, reset, load, run.       *)
(*                                                                         *)
(* A Rust panic ends the process: the model records it in `panicked` and   *)
(* `err` and keeps the machine state as it stood when the panic was        *)
(* raised.  Integer overflow of `+`, `-`, `+=`, `-=` panics when the build *)
(* has overflow checks (debug profile) and wraps when it has not (release  *)
(* profile); `overflow_checks` is chosen once, at start.                   *)
(***************************************************************************)
EXTENDS Integers, Sequences, FiniteSets, TLC

VARIABLES
    chip8,            \* the fields of struct Chip8 (without `timing`)
    elapsed,          \* milliseconds since the Instant held in `timing`
    phase,            \* where the host stands: "constructed", "reset", "running",
                      \* and "reset_again", "reloaded", "decoded" where a run ends
    overflow_checks,  \* whether the build panics on integer overflow
    panicked,         \* the process has panicked
    err,              \* the panic: its kind and the values its message carries
    driver,           \* "Blocked" when the last cycle returned Flow::Halt, else "Running"
    pre,              \* the fields before the last cycle, reset or load
    last,             \* the last step: which it was, and what a cycle did
    rendered          \* the display grid as the last render, or the reset, left it

vars ==
    <<chip8, elapsed, phase, overflow_checks, panicked, err, driver, pre, last,
      rendered>>

----------------------------------------------------------------------------
(* Program constants *)

CHIP8_SCREEN_WIDTH == 64
CHIP8_SCREEN_HEIGHT == 32
MEM_SIZE == 4096
STACK_SIZE == 16
NUM_REGS == 16
NUM_KEYS == 16
PROG_START == 512
PROG_MEM_SIZE == 3583
TIMER_PERIOD_MS == 20

GFX_SIZE == CHIP8_SCREEN_WIDTH * CHIP8_SCREEN_HEIGHT
U8 == 256
U16 == 65536

----------------------------------------------------------------------------
(* Bounds of the model *)

\* `elapsed` is not followed beyond this many milliseconds
MaxElapsedMs == 34

\* the amounts of time that pass between two steps
ClockSteps == {17, 20}

\* the values random::<u8>() is drawn from
RandomBytes == {0, 165, 255}

\* the host keys pressed and released (two mapped keys, one unmapped)
HostKeys == {"X", "Key3", "Escape"}

----------------------------------------------------------------------------
(* Bit operations of u8 / u16 *)

RECURSIVE BitAnd(_, _)
BitAnd(a, b) ==
    IF a = 0 \/ b = 0 THEN 0
    ELSE (a % 2) * (b % 2) + 2 * BitAnd(a \div 2, b \div 2)

RECURSIVE BitOr(_, _)
BitOr(a, b) ==
    IF a = 0 THEN b
    ELSE IF b = 0 THEN a
    ELSE (IF a % 2 = 1 \/ b % 2 = 1 THEN 1 ELSE 0) + 2 * BitOr(a \div 2, b \div 2)

RECURSIVE BitXor(_, _)
BitXor(a, b) ==
    IF a = 0 THEN b
    ELSE IF b = 0 THEN a
    ELSE ((a + b) % 2) + 2 * BitXor(a \div 2, b \div 2)

----------------------------------------------------------------------------
(* Panics *)

NoErr == [kind |-> "none", args |-> <<>>]

\* panic!("Opcode is not supported {:#04X}", opcode)
OpcodeNotSupported(opcode) == [kind |-> "OpcodeNotSupported", args |-> <<opcode>>]

\* "index out of bounds: the len is {len} but the index is {index}"
IndexOutOfBounds(len, index) == [kind |-> "IndexOutOfBounds", args |-> <<len, index>>]

\* "range end index {end} out of range for slice of length {len}"
SliceEndOutOfRange(end, len) == [kind |-> "SliceEndOutOfRange", args |-> <<end, len>>]

\* "slice index starts at {start} but ends at {end}"
SliceIndexOrder(start, end) == [kind |-> "SliceIndexOrder", args |-> <<start, end>>]

\* "attempt to add with overflow" / "attempt to subtract with overflow"
ArithmeticOverflow == [kind |-> "ArithmeticOverflow", args |-> <<>>]

----------------------------------------------------------------------------
(* The machine state.  The array mem: [u8; 4096] is held as the function   *)
(* from its non-zero cells to their bytes, and the array gfx: [bool; 2048] *)
(* as the set of its cells that are true: one value for every array, and   *)
(* one array for every value.  Every index is checked against the length   *)
(* of its array where the code indexes it.                                 *)

\* self.mem[a], for a in 0..4095
MemAt(mem, a) == IF a \in DOMAIN mem THEN mem[a] ELSE 0

\* mem after bytes is copied to the cells start, start + 1, ...
CopyToMem(mem, start, bytes) ==
    LET written == start..(start + Len(bytes) - 1)
        val(a) == IF a \in written THEN bytes[a - start + 1] ELSE mem[a]
    IN  [a \in {c \in (DOMAIN mem) \cup written : val(c) # 0} |-> val(a)]

\* self.gfx[p], for p in 0..2047
GfxAt(gfx, p) == p \in gfx

\* gfx after self.gfx[p] ^= true
GfxToggle(gfx, p) == IF p \in gfx THEN gfx \ {p} ELSE gfx \cup {p}

\* mem: [0; 4096], the memory with no non-zero cell
ZeroMem == [a \in {} |-> 0]

\* impl Default for Chip8
DefaultChip8 ==
    [ i |-> 0, pc |-> 0, sp |-> 0, dt |-> 0, st |-> 0,
      v |-> [r \in 0..(NUM_REGS - 1) |-> 0],
      mem |-> ZeroMem,
      stack |-> [k \in 0..(STACK_SIZE - 1) |-> 0],
      gfx |-> {},
      key |-> [k \in 0..(NUM_KEYS - 1) |-> FALSE],
      gfx_updated |-> FALSE ]

\* the font sprites reset() writes to the first 80 bytes of memory
FontSet ==
    << 240, 144, 144, 144, 240,
        32,  96,  32,  32, 112,
       240,  16, 240, 128, 240,
       240,  16, 240,  16, 240,
       144, 144, 240,  16,  16,
       240, 128, 240,  16, 240,
       240, 128, 240, 144, 240,
       240,  16,  32,  64,  64,
       240, 144, 240, 144, 240,
       240, 144, 240,  16, 240,
       240, 144, 240, 144, 144,
       224, 144, 224, 144, 224,
       240, 128, 128, 128, 240,
       224, 144, 144, 144, 224,
       240, 128, 240, 128, 240,
       240, 128, 240, 128, 128 >>

\* ResetChip8 writing the font sprites without zeroing the memory first
ResetChip8_KeepsProgram(s) ==
    [s EXCEPT !.i = 0,
              !.pc = PROG_START,
              !.sp = 0,
              !.dt = 0,
              !.st = 0,
              !.v = [r \in 0..(NUM_REGS - 1) |-> 0],
              !.mem = CopyToMem(@, 0, FontSet),
              !.stack = [k \in 0..(STACK_SIZE - 1) |-> 0],
              !.gfx = {},
              !.key = [k \in 0..(NUM_KEYS - 1) |-> FALSE],
              !.gfx_updated = FALSE]

\* Chip8::reset: every field assigned in turn, then the font sprites written
\* to the first 80 bytes of the zeroed memory
ResetChip8(s) ==
    LET s1 == [s EXCEPT !.i = 0,
                        !.pc = PROG_START,
                        !.sp = 0,
                        !.dt = 0,
                        !.st = 0,
                        !.v = [r \in 0..(NUM_REGS - 1) |-> 0],
                        !.mem = ZeroMem,
                        !.stack = [k \in 0..(STACK_SIZE - 1) |-> 0],
                        !.gfx = {},
                        !.key = [k \in 0..(NUM_KEYS - 1) |-> FALSE],
                        !.gfx_updated = FALSE]
    IN  [s1 EXCEPT !.mem = CopyToMem(@, 0, FontSet)]

\* LoadChip8 copying the whole buffer, whatever length is given with it
LoadChip8_WholeBuffer(s, prog_mem, prog_len) ==
    [s EXCEPT !.mem = CopyToMem(@, PROG_START,
                                [k \in 1..PROG_MEM_SIZE |-> prog_mem[k]])]

\* Chip8::load: prog_mem[..prog_len] copied to mem[0x200..0x200 + prog_len]
LoadChip8(s, prog_mem, prog_len) ==
    [s EXCEPT !.mem = CopyToMem(@, PROG_START,
                                [k \in 1..prog_len |-> prog_mem[k]])]

----------------------------------------------------------------------------
(* The decoder: impl From<u16> for Inst *)

Nibbles(opcode) ==
    << (opcode \div 4096) % 16, (opcode \div 256) % 16,
       (opcode \div 16) % 16, opcode % 16 >>

\* a decoded instruction: the variant and the operands taken from the word
MkInst(op, opcode) ==
    [ op |-> op,
      x |-> Nibbles(opcode)[2],
      y |-> Nibbles(opcode)[3],
      n |-> Nibbles(opcode)[4],
      kk |-> opcode % 256,
      nnn |-> opcode % 4096 ]

\* InstOp with 5XYn and 9XYn matched on the leading nibble alone
InstOp_LooseMatch(opcode) ==
    LET nb == Nibbles(opcode) IN
    CASE nb = <<0, 0, 14, 0>> -> "Op00E0"
      [] nb = <<0, 0, 14, 14>> -> "Op00EE"
      [] nb[1] = 1 -> "Op1NNN"
      [] nb[1] = 2 -> "Op2NNN"
      [] nb[1] = 3 -> "Op3XKK"
      [] nb[1] = 4 -> "Op4XKK"
      [] nb[1] = 5 -> "Op5XY0"
      [] nb[1] = 6 -> "Op6XKK"
      [] nb[1] = 7 -> "Op7XKK"
      [] nb[1] = 8 /\ nb[4] = 0 -> "Op8XY0"
      [] nb[1] = 8 /\ nb[4] = 1 -> "Op8XY1"
      [] nb[1] = 8 /\ nb[4] = 2 -> "Op8XY2"
      [] nb[1] = 8 /\ nb[4] = 3 -> "Op8XY3"
      [] nb[1] = 8 /\ nb[4] = 4 -> "Op8XY4"
      [] nb[1] = 8 /\ nb[4] = 5 -> "Op8XY5"
      [] nb[1] = 8 /\ nb[4] = 6 -> "Op8XY6"
      [] nb[1] = 8 /\ nb[4] = 7 -> "Op8XY7"
      [] nb[1] = 8 /\ nb[4] = 14 -> "Op8XYE"
      [] nb[1] = 9 -> "Op9XY0"
      [] nb[1] = 10 -> "OpANNN"
      [] nb[1] = 11 -> "OpBNNN"
      [] nb[1] = 12 -> "OpCXKK"
      [] nb[1] = 13 -> "OpDXYN"
      [] nb[1] = 14 /\ nb[3] = 9 /\ nb[4] = 14 -> "OpEX9E"
      [] nb[1] = 14 /\ nb[3] = 10 /\ nb[4] = 1 -> "OpEXA1"
      [] nb[1] = 15 /\ nb[3] = 0 /\ nb[4] = 7 -> "OpFX07"
      [] nb[1] = 15 /\ nb[3] = 0 /\ nb[4] = 10 -> "OpFX0A"
      [] nb[1] = 15 /\ nb[3] = 1 /\ nb[4] = 5 -> "OpFX15"
      [] nb[1] = 15 /\ nb[3] = 1 /\ nb[4] = 8 -> "OpFX18"
      [] nb[1] = 15 /\ nb[3] = 1 /\ nb[4] = 14 -> "OpFX1E"
      [] nb[1] = 15 /\ nb[3] = 2 /\ nb[4] = 9 -> "OpFX29"
      [] nb[1] = 15 /\ nb[3] = 3 /\ nb[4] = 3 -> "OpFX33"
      [] nb[1] = 15 /\ nb[3] = 5 /\ nb[4] = 5 -> "OpFX55"
      [] nb[1] = 15 /\ nb[3] = 6 /\ nb[4] = 5 -> "OpFX65"
      [] OTHER -> "Panic"

\* the variant the match on the nibbles selects; "Panic" is its last arm
InstOp(opcode) ==
    LET nb == Nibbles(opcode) IN
    CASE nb = <<0, 0, 14, 0>> -> "Op00E0"
      [] nb = <<0, 0, 14, 14>> -> "Op00EE"
      [] nb[1] = 1 -> "Op1NNN"
      [] nb[1] = 2 -> "Op2NNN"
      [] nb[1] = 3 -> "Op3XKK"
      [] nb[1] = 4 -> "Op4XKK"
      [] nb[1] = 5 /\ nb[4] = 0 -> "Op5XY0"
      [] nb[1] = 6 -> "Op6XKK"
      [] nb[1] = 7 -> "Op7XKK"
      [] nb[1] = 8 /\ nb[4] = 0 -> "Op8XY0"
      [] nb[1] = 8 /\ nb[4] = 1 -> "Op8XY1"
      [] nb[1] = 8 /\ nb[4] = 2 -> "Op8XY2"
      [] nb[1] = 8 /\ nb[4] = 3 -> "Op8XY3"
      [] nb[1] = 8 /\ nb[4] = 4 -> "Op8XY4"
      [] nb[1] = 8 /\ nb[4] = 5 -> "Op8XY5"
      [] nb[1] = 8 /\ nb[4] = 6 -> "Op8XY6"
      [] nb[1] = 8 /\ nb[4] = 7 -> "Op8XY7"
      [] nb[1] = 8 /\ nb[4] = 14 -> "Op8XYE"
      [] nb[1] = 9 /\ nb[4] = 0 -> "Op9XY0"
      [] nb[1] = 10 -> "OpANNN"
      [] nb[1] = 11 -> "OpBNNN"
      [] nb[1] = 12 -> "OpCXKK"
      [] nb[1] = 13 -> "OpDXYN"
      [] nb[1] = 14 /\ nb[3] = 9 /\ nb[4] = 14 -> "OpEX9E"
      [] nb[1] = 14 /\ nb[3] = 10 /\ nb[4] = 1 -> "OpEXA1"
      [] nb[1] = 15 /\ nb[3] = 0 /\ nb[4] = 7 -> "OpFX07"
      [] nb[1] = 15 /\ nb[3] = 0 /\ nb[4] = 10 -> "OpFX0A"
      [] nb[1] = 15 /\ nb[3] = 1 /\ nb[4] = 5 -> "OpFX15"
      [] nb[1] = 15 /\ nb[3] = 1 /\ nb[4] = 8 -> "OpFX18"
      [] nb[1] = 15 /\ nb[3] = 1 /\ nb[4] = 14 -> "OpFX1E"
      [] nb[1] = 15 /\ nb[3] = 2 /\ nb[4] = 9 -> "OpFX29"
      [] nb[1] = 15 /\ nb[3] = 3 /\ nb[4] = 3 -> "OpFX33"
      [] nb[1] = 15 /\ nb[3] = 5 /\ nb[4] = 5 -> "OpFX55"
      [] nb[1] = 15 /\ nb[3] = 6 /\ nb[4] = 5 -> "OpFX65"
      [] OTHER -> "Panic"

\* the panic of the last arm
DecodePanic(opcode) == OpcodeNotSupported(opcode)

\* Inst::from(opcode): the instruction, and the panic if there is none
Decode(opcode) ==
    [ inst |-> MkInst(InstOp(opcode), opcode),
      err |-> IF InstOp(opcode) = "Panic" THEN DecodePanic(opcode) ELSE NoErr ]

\* no instruction: the fetch panicked before the decoder ran
NoInst == [op |-> "None", x |-> 0, y |-> 0, n |-> 0, kk |-> 0, nnn |-> 0]

----------------------------------------------------------------------------
(* The executor: Chip8::exec.  Each arm gives the state it leaves, the     *)
(* Flow it returns (with the address of a Jump) and the panic, if any.     *)

FlowNext(s) == [s |-> s, flow |-> "Next", addr |-> 0, err |-> NoErr]
FlowSkip(s) == [s |-> s, flow |-> "Skip", addr |-> 0, err |-> NoErr]
FlowHalt(s) == [s |-> s, flow |-> "Halt", addr |-> 0, err |-> NoErr]
FlowJump(s, addr) == [s |-> s, flow |-> "Jump", addr |-> addr, err |-> NoErr]
Panicked(s, e) == [s |-> s, flow |-> "Panic", addr |-> 0, err |-> e]

Exec00E0(s) ==
    FlowNext([s EXCEPT !.gfx_updated = TRUE, !.gfx = {}])

\* self.sp -= 1; return Flow::Jump(self.stack[self.sp as usize])
Exec00EE(s) ==
    IF s.sp = 0 /\ overflow_checks THEN Panicked(s, ArithmeticOverflow)
    ELSE LET s1 == [s EXCEPT !.sp = (s.sp + U8 - 1) % U8] IN
         IF s1.sp >= STACK_SIZE
         THEN Panicked(s1, IndexOutOfBounds(STACK_SIZE, s1.sp))
         ELSE FlowJump(s1, s1.stack[s1.sp])

Exec1NNN(s, nnn) == FlowJump(s, nnn)

\* Exec2NNN saving the address of the call instruction itself
Exec2NNN_SavesCallSite(s, nnn) ==
    IF s.sp >= STACK_SIZE THEN Panicked(s, IndexOutOfBounds(STACK_SIZE, s.sp))
    ELSE FlowJump([s EXCEPT !.stack[s.sp] = s.pc - 2, !.sp = s.sp + 1], nnn)

\* self.stack[self.sp as usize] = self.pc; self.sp += 1; Flow::Jump(nnn)
Exec2NNN(s, nnn) ==
    IF s.sp >= STACK_SIZE THEN Panicked(s, IndexOutOfBounds(STACK_SIZE, s.sp))
    ELSE LET s1 == [s EXCEPT !.stack[s.sp] = s.pc] IN
         IF s.sp + 1 >= U8 /\ overflow_checks THEN Panicked(s1, ArithmeticOverflow)
         ELSE FlowJump([s1 EXCEPT !.sp = (s.sp + 1) % U8], nnn)

Exec3XKK(s, x, kk) == IF s.v[x] = kk THEN FlowSkip(s) ELSE FlowNext(s)
Exec4XKK(s, x, kk) == IF s.v[x] # kk THEN FlowSkip(s) ELSE FlowNext(s)
Exec5XY0(s, x, y) == IF s.v[x] = s.v[y] THEN FlowSkip(s) ELSE FlowNext(s)
Exec6XKK(s, x, kk) == FlowNext([s EXCEPT !.v[x] = kk])
Exec7XKK(s, x, kk) == FlowNext([s EXCEPT !.v[x] = (s.v[x] + kk) % U8])
Exec8XY0(s, x, y) == FlowNext([s EXCEPT !.v[x] = s.v[y]])
Exec8XY1(s, x, y) == FlowNext([s EXCEPT !.v[x] = BitOr(s.v[x], s.v[y])])
Exec8XY2(s, x, y) == FlowNext([s EXCEPT !.v[x] = BitAnd(s.v[x], s.v[y])])
Exec8XY3(s, x, y) == FlowNext([s EXCEPT !.v[x] = BitXor(s.v[x], s.v[y])])

\* Exec8XY4 storing the sum in v[y]
Exec8XY4_SumIntoY(s, x, y) ==
    LET sum == s.v[x] + s.v[y]
        s1 == [s EXCEPT !.v[15] = IF sum >= U8 THEN 1 ELSE 0]
    IN  FlowNext([s1 EXCEPT !.v[y] = sum % U8])

\* overflowing_add, then v[0xF], then v[x]
Exec8XY4(s, x, y) ==
    LET sum == s.v[x] + s.v[y]
        s1 == [s EXCEPT !.v[15] = IF sum >= U8 THEN 1 ELSE 0]
    IN  FlowNext([s1 EXCEPT !.v[x] = sum % U8])

\* Exec8XY5 with a difference that stops at 0
Exec8XY5_Saturating(s, x, y) ==
    LET diff == s.v[x] - s.v[y]
        s1 == [s EXCEPT !.v[15] = IF diff < 0 THEN 0 ELSE 1]
    IN  FlowNext([s1 EXCEPT !.v[x] = IF diff < 0 THEN 0 ELSE diff])

\* overflowing_sub, then v[0xF], then v[x]
Exec8XY5(s, x, y) ==
    LET diff == s.v[x] - s.v[y]
        s1 == [s EXCEPT !.v[15] = IF diff < 0 THEN 0 ELSE 1]
    IN  FlowNext([s1 EXCEPT !.v[x] = (diff + U8) % U8])

\* v[0xF] = v[x] & 0x01, then v[x] >>= 1 on the register as it then is
Exec8XY6(s, x, y) ==
    LET s1 == [s EXCEPT !.v[15] = BitAnd(s.v[x], 1)]
    IN  FlowNext([s1 EXCEPT !.v[x] = s1.v[x] \div 2])

Exec8XY7(s, x, y) ==
    LET diff == s.v[y] - s.v[x]
        s1 == [s EXCEPT !.v[15] = IF diff < 0 THEN 0 ELSE 1]
    IN  FlowNext([s1 EXCEPT !.v[x] = (diff + U8) % U8])

\* v[0xF] = (v[x] & 0x80) >> 7, then v[x] <<= 1 on the register as it then is
Exec8XYE(s, x, y) ==
    LET s1 == [s EXCEPT !.v[15] = BitAnd(s.v[x], 128) \div 128]
    IN  FlowNext([s1 EXCEPT !.v[x] = (s1.v[x] * 2) % U8])

Exec9XY0(s, x, y) == IF s.v[x] # s.v[y] THEN FlowSkip(s) ELSE FlowNext(s)
ExecANNN(s, nnn) == FlowNext([s EXCEPT !.i = nnn])

\* Flow::Jump(self.v[0] as u16 + nnn)
ExecBNNN(s, nnn) ==
    IF s.v[0] + nnn >= U16 /\ overflow_checks THEN Panicked(s, ArithmeticOverflow)
    ELSE FlowJump(s, (s.v[0] + nnn) % U16)

ExecCXKK(s, x, kk, rnd) == FlowNext([s EXCEPT !.v[x] = BitAnd(rnd, kk)])

\* DrawRow setting the flag at every pixel it draws
RECURSIVE DrawRow_FlagsEveryPixel(_, _, _, _, _)
DrawRow_FlagsEveryPixel(s, x, y_screen, sprite, x_offset) ==
    IF x_offset = 8 THEN s
    ELSE LET x_screen == (s.v[x] + x_offset) % CHIP8_SCREEN_WIDTH
             p == x_screen + y_screen * CHIP8_SCREEN_WIDTH
         IN  IF (sprite \div (2 ^ (7 - x_offset))) % 2 # 0
             THEN DrawRow_FlagsEveryPixel(
                      [s EXCEPT !.v[15] = 1, !.gfx = GfxToggle(@, p)],
                      x, y_screen, sprite, x_offset + 1)
             ELSE DrawRow_FlagsEveryPixel(s, x, y_screen, sprite, x_offset + 1)

\* one row of a sprite: for x_offset in 0..8, with v[x] read at every pixel
RECURSIVE DrawRow(_, _, _, _, _)
DrawRow(s, x, y_screen, sprite, x_offset) ==
    IF x_offset = 8 THEN s
    ELSE LET x_screen == (s.v[x] + x_offset) % CHIP8_SCREEN_WIDTH
             p == x_screen + y_screen * CHIP8_SCREEN_WIDTH
         IN  IF (sprite \div (2 ^ (7 - x_offset))) % 2 # 0
             THEN DrawRow([s EXCEPT !.v[15] = IF GfxAt(s.gfx, p) THEN 1 ELSE @,
                                    !.gfx = GfxToggle(@, p)],
                          x, y_screen, sprite, x_offset + 1)
             ELSE DrawRow(s, x, y_screen, sprite, x_offset + 1)

\* the rows of mem[start .. start + n - 1], with v[y] read at every row
RECURSIVE DrawRows(_, _, _, _, _, _)
DrawRows(s, x, y, start, n, y_offset) ==
    IF y_offset = n THEN s
    ELSE DrawRows(DrawRow(s, x, (s.v[y] + y_offset) % CHIP8_SCREEN_HEIGHT,
                          MemAt(s.mem, start + y_offset), 0),
                  x, y, start, n, y_offset + 1)

\* ExecDXYN leaving gfx_updated as it finds it
ExecDXYN_NotDirty(s, x, y, n) ==
    LET s1 == [s EXCEPT !.v[15] = 0]
        end == (s.i + n) % U16
    IN  IF s.i + n >= U16 /\ overflow_checks THEN Panicked(s1, ArithmeticOverflow)
        ELSE IF s.i > end THEN Panicked(s1, SliceIndexOrder(s.i, end))
        ELSE IF end > MEM_SIZE THEN Panicked(s1, SliceEndOutOfRange(end, MEM_SIZE))
        ELSE FlowNext(DrawRows(s1, x, y, s.i, n, 0))

\* gfx_updated = true; v[0xF] = 0; then the slice mem[i .. i + n], i + n in u16
ExecDXYN(s, x, y, n) ==
    LET s1 == [s EXCEPT !.gfx_updated = TRUE, !.v[15] = 0]
        end == (s.i + n) % U16
    IN  IF s.i + n >= U16 /\ overflow_checks THEN Panicked(s1, ArithmeticOverflow)
        ELSE IF s.i > end THEN Panicked(s1, SliceIndexOrder(s.i, end))
        ELSE IF end > MEM_SIZE THEN Panicked(s1, SliceEndOutOfRange(end, MEM_SIZE))
        ELSE FlowNext(DrawRows(s1, x, y, s.i, n, 0))

\* if self.key[self.v[x] as usize]
ExecEX9E(s, x) ==
    IF s.v[x] >= NUM_KEYS THEN Panicked(s, IndexOutOfBounds(NUM_KEYS, s.v[x]))
    ELSE IF s.key[s.v[x]] THEN FlowSkip(s) ELSE FlowNext(s)

ExecEXA1(s, x) ==
    IF s.v[x] >= NUM_KEYS THEN Panicked(s, IndexOutOfBounds(NUM_KEYS, s.v[x]))
    ELSE IF ~s.key[s.v[x]] THEN FlowSkip(s) ELSE FlowNext(s)

ExecFX07(s, x) == FlowNext([s EXCEPT !.v[x] = s.dt])

\* the keys that are down
Pressed(s) == {k \in 0..(NUM_KEYS - 1) : s.key[k]}

\* the first key the scan of self.key finds down
FirstPressed(s) == CHOOSE k \in Pressed(s) : \A j \in Pressed(s) : k <= j

\* ExecFX0A with 0 taken to mean that the scan found no key
ExecFX0A_ZeroIsNone(s, x) ==
    IF Pressed(s) = {} \/ FirstPressed(s) = 0 THEN FlowHalt(s)
    ELSE FlowNext([s EXCEPT !.v[x] = FirstPressed(s)])

\* ExecFX0A with a scan that does not stop at the first key it finds down
ExecFX0A_NoBreak(s, x) ==
    IF Pressed(s) = {} THEN FlowHalt(s)
    ELSE FlowNext([s EXCEPT !.v[x] =
             CHOOSE k \in Pressed(s) : \A j \in Pressed(s) : k >= j])

\* ExecFX0A releasing the key it has read
ExecFX0A_ConsumesKey(s, x) ==
    IF Pressed(s) = {} THEN FlowHalt(s)
    ELSE FlowNext([s EXCEPT !.v[x] = FirstPressed(s),
                            !.key[FirstPressed(s)] = FALSE])

ExecFX0A(s, x) ==
    IF Pressed(s) = {} THEN FlowHalt(s)
    ELSE FlowNext([s EXCEPT !.v[x] = FirstPressed(s)])

ExecFX15(s, x) == FlowNext([s EXCEPT !.dt = s.v[x]])
ExecFX18(s, x) == FlowNext([s EXCEPT !.st = s.v[x]])
ExecFX1E(s, x) == FlowNext([s EXCEPT !.i = (s.i + s.v[x]) % U16])
ExecFX29(s, x) == FlowNext([s EXCEPT !.i = s.v[x] * 5])

\* three indexed writes, one after the other
ExecFX33(s, x) ==
    LET s1 == [s EXCEPT !.mem = CopyToMem(@, s.i, <<s.v[x] \div 100>>)]
        s2 == [s1 EXCEPT !.mem = CopyToMem(@, s.i + 1, <<(s.v[x] \div 10) % 10>>)]
        s3 == [s2 EXCEPT !.mem = CopyToMem(@, s.i + 2, <<(s.v[x] % 100) % 10>>)]
    IN  IF s.i >= MEM_SIZE THEN Panicked(s, IndexOutOfBounds(MEM_SIZE, s.i))
        ELSE IF s.i + 1 >= MEM_SIZE THEN Panicked(s1, IndexOutOfBounds(MEM_SIZE, s.i + 1))
        ELSE IF s.i + 2 >= MEM_SIZE THEN Panicked(s2, IndexOutOfBounds(MEM_SIZE, s.i + 2))
        ELSE FlowNext(s3)

\* ExecFX55 leaving the index register where it was
ExecFX55_IndexUnchanged(s, x) ==
    IF s.i + x + 1 > MEM_SIZE
    THEN Panicked(s, SliceEndOutOfRange(s.i + x + 1, MEM_SIZE))
    ELSE FlowNext([s EXCEPT !.mem =
                      CopyToMem(@, s.i, [k \in 1..(x + 1) |-> s.v[k - 1]])])

\* mem[i ..= i + x].copy_from_slice(&v[0 ..= x]); i += x + 1
ExecFX55(s, x) ==
    IF s.i + x + 1 > MEM_SIZE
    THEN Panicked(s, SliceEndOutOfRange(s.i + x + 1, MEM_SIZE))
    ELSE LET s1 == [s EXCEPT !.mem =
                        CopyToMem(@, s.i, [k \in 1..(x + 1) |-> s.v[k - 1]])]
         IN  FlowNext([s1 EXCEPT !.i = s.i + x + 1])

\* v[0 ..= x].copy_from_slice(&mem[i ..= i + x]); i += x + 1
ExecFX65(s, x) ==
    IF s.i + x + 1 > MEM_SIZE
    THEN Panicked(s, SliceEndOutOfRange(s.i + x + 1, MEM_SIZE))
    ELSE LET s1 == [s EXCEPT !.v = [r \in 0..(NUM_REGS - 1) |->
                        IF r <= x THEN MemAt(s.mem, s.i + r) ELSE @[r]]]
         IN  FlowNext([s1 EXCEPT !.i = s.i + x + 1])

\* Chip8::exec: the match on the instruction
Exec(s, inst, rnd) ==
    CASE inst.op = "Op00E0" -> Exec00E0(s)
      [] inst.op = "Op00EE" -> Exec00EE(s)
      [] inst.op = "Op1NNN" -> Exec1NNN(s, inst.nnn)
      [] inst.op = "Op2NNN" -> Exec2NNN(s, inst.nnn)
      [] inst.op = "Op3XKK" -> Exec3XKK(s, inst.x, inst.kk)
      [] inst.op = "Op4XKK" -> Exec4XKK(s, inst.x, inst.kk)
      [] inst.op = "Op5XY0" -> Exec5XY0(s, inst.x, inst.y)
      [] inst.op = "Op6XKK" -> Exec6XKK(s, inst.x, inst.kk)
      [] inst.op = "Op7XKK" -> Exec7XKK(s, inst.x, inst.kk)
      [] inst.op = "Op8XY0" -> Exec8XY0(s, inst.x, inst.y)
      [] inst.op = "Op8XY1" -> Exec8XY1(s, inst.x, inst.y)
      [] inst.op = "Op8XY2" -> Exec8XY2(s, inst.x, inst.y)
      [] inst.op = "Op8XY3" -> Exec8XY3(s, inst.x, inst.y)
      [] inst.op = "Op8XY4" -> Exec8XY4(s, inst.x, inst.y)
      [] inst.op = "Op8XY5" -> Exec8XY5(s, inst.x, inst.y)
      [] inst.op = "Op8XY6" -> Exec8XY6(s, inst.x, inst.y)
      [] inst.op = "Op8XY7" -> Exec8XY7(s, inst.x, inst.y)
      [] inst.op = "Op8XYE" -> Exec8XYE(s, inst.x, inst.y)
      [] inst.op = "Op9XY0" -> Exec9XY0(s, inst.x, inst.y)
      [] inst.op = "OpANNN" -> ExecANNN(s, inst.nnn)
      [] inst.op = "OpBNNN" -> ExecBNNN(s, inst.nnn)
      [] inst.op = "OpCXKK" -> ExecCXKK(s, inst.x, inst.kk, rnd)
      [] inst.op = "OpDXYN" -> ExecDXYN(s, inst.x, inst.y, inst.n)
      [] inst.op = "OpEX9E" -> ExecEX9E(s, inst.x)
      [] inst.op = "OpEXA1" -> ExecEXA1(s, inst.x)
      [] inst.op = "OpFX07" -> ExecFX07(s, inst.x)
      [] inst.op = "OpFX0A" -> ExecFX0A(s, inst.x)
      [] inst.op = "OpFX15" -> ExecFX15(s, inst.x)
      [] inst.op = "OpFX18" -> ExecFX18(s, inst.x)
      [] inst.op = "OpFX1E" -> ExecFX1E(s, inst.x)
      [] inst.op = "OpFX29" -> ExecFX29(s, inst.x)
      [] inst.op = "OpFX33" -> ExecFX33(s, inst.x)
      [] inst.op = "OpFX55" -> ExecFX55(s, inst.x)
      [] inst.op = "OpFX65" -> ExecFX65(s, inst.x)

----------------------------------------------------------------------------
(* The cycle: Chip8::tick *)

\* Fetch with the two addresses wrapped into the memory
Fetch_Wraparound(s) ==
    [ s |-> [s EXCEPT !.pc = (s.pc + 2) % U16],
      opcode |-> BitOr(MemAt(s.mem, s.pc % MEM_SIZE) * 256,
                       MemAt(s.mem, (s.pc + 1) % MEM_SIZE)),
      err |-> NoErr ]

\* Chip8::fetch: pc += 2, then the two bytes at the old pc, big-endian
Fetch(s) ==
    LET pc == s.pc
        s1 == [s EXCEPT !.pc = (pc + 2) % U16]
    IN  IF pc + 2 >= U16 /\ overflow_checks
        THEN [s |-> s, opcode |-> 0, err |-> ArithmeticOverflow]
        ELSE IF pc >= MEM_SIZE
        THEN [s |-> s1, opcode |-> 0, err |-> IndexOutOfBounds(MEM_SIZE, pc)]
        ELSE IF pc + 1 >= MEM_SIZE
        THEN [s |-> s1, opcode |-> 0, err |-> IndexOutOfBounds(MEM_SIZE, pc + 1)]
        ELSE [s |-> s1, opcode |-> BitOr(MemAt(s.mem, pc) * 256, MemAt(s.mem, pc + 1)),
              err |-> NoErr]

\* ApplyFlow with a Skip that adds 4 to the program counter fetch left
ApplyFlow_SkipAddsFour(pc, flow, addr) ==
    CASE flow = "Halt" -> pc - 2
      [] flow = "Next" -> pc
      [] flow = "Skip" -> pc + 4
      [] flow = "Jump" -> addr

\* the match on the Flow in tick; pc is the program counter fetch left.
\* fetch leaves 2 <= pc <= 4097, so neither pc - 2 nor pc + 2 overflows u16
ApplyFlow(pc, flow, addr) ==
    CASE flow = "Halt" -> pc - 2
      [] flow = "Next" -> pc
      [] flow = "Skip" -> pc + 2
      [] flow = "Jump" -> addr

\* UpdateTimers printing BEEP at every decrement of the sound timer
UpdateTimers_BeepEveryTick(s, el) ==
    IF el >= TIMER_PERIOD_MS
    THEN [ s |-> [s EXCEPT !.dt = IF @ > 0 THEN @ - 1 ELSE @,
                           !.st = IF @ > 0 THEN @ - 1 ELSE @],
           elapsed |-> 0,
           fired |-> TRUE,
           beep |-> (s.st > 0) ]
    ELSE [ s |-> s, elapsed |-> el, fired |-> FALSE, beep |-> FALSE ]

\* the timer update of tick, el milliseconds after `timing`
UpdateTimers(s, el) ==
    IF el >= TIMER_PERIOD_MS
    THEN [ s |-> [s EXCEPT !.dt = IF @ > 0 THEN @ - 1 ELSE @,
                           !.st = IF @ > 0 THEN @ - 1 ELSE @],
           elapsed |-> 0,
           fired |-> TRUE,
           beep |-> (s.st > 0 /\ s.st = 1) ]
    ELSE [ s |-> s, elapsed |-> el, fired |-> FALSE, beep |-> FALSE ]

\* `last` after a step that is no cycle
NoCycle ==
    [ step |-> "other", opcode |-> 0, inst |-> NoInst, flow |-> "None",
      addr |-> 0, dt_exec |-> 0, st_exec |-> 0, fired |-> FALSE,
      beep |-> FALSE, elapsed |-> 0, was_blocked |-> FALSE,
      prog |-> <<>>, prog_len |-> 0 ]

\* a cycle that panicked: in fetch, in the decoder or in exec
CyclePanic(s, opcode, inst, e, el) ==
    [ s |-> s, elapsed |-> el, err |-> e,
      info |-> [ step |-> "tick", opcode |-> opcode, inst |-> inst,
                 flow |-> "Panic", addr |-> 0, dt_exec |-> s.dt, st_exec |-> s.st,
                 fired |-> FALSE, beep |-> FALSE, elapsed |-> el,
                 was_blocked |-> (driver = "Blocked"),
                 prog |-> <<>>, prog_len |-> 0 ] ]

\* Chip8::tick on state s, el milliseconds after `timing`
TickResult(s, rnd, el) ==
    LET f == Fetch(s)
        d == Decode(f.opcode)
        e == Exec(f.s, d.inst, rnd)
        s2 == [e.s EXCEPT !.pc = ApplyFlow(e.s.pc, e.flow, e.addr)]
        t == UpdateTimers(s2, el)
    IN  IF f.err # NoErr THEN CyclePanic(f.s, f.opcode, NoInst, f.err, el)
        ELSE IF d.err # NoErr THEN CyclePanic(f.s, f.opcode, d.inst, d.err, el)
        ELSE IF e.err # NoErr THEN CyclePanic(e.s, f.opcode, d.inst, e.err, el)
        ELSE [ s |-> t.s, elapsed |-> t.elapsed, err |-> NoErr,
               info |-> [ step |-> "tick", opcode |-> f.opcode, inst |-> d.inst,
                          flow |-> e.flow, addr |-> e.addr,
                          dt_exec |-> s2.dt, st_exec |-> s2.st,
                          fired |-> t.fired, beep |-> t.beep, elapsed |-> el,
                                   was_blocked |-> (driver = "Blocked"),
                          prog |-> <<>>, prog_len |-> 0 ] ]

\* whether the instruction at pc draws a random byte
FetchesRandom(s) ==
    /\ Fetch(s).err = NoErr
    /\ InstOp(Fetch(s).opcode) = "OpCXKK"

----------------------------------------------------------------------------
(* The host callbacks *)

\* the match on the keycode in key_down_event and key_up_event
KeyMap ==
    [ Key1 |-> 1, Key2 |-> 2, Key3 |-> 3, Key4 |-> 12,
      Q |-> 4, W |-> 5, E |-> 6, R |-> 13,
      A |-> 7, S |-> 8, D |-> 9, F |-> 14,
      Z |-> 10, X |-> 0, C |-> 11, V |-> 15 ]

KeyDownChip8(s, keycode) ==
    IF keycode \in DOMAIN KeyMap THEN [s EXCEPT !.key[KeyMap[keycode]] = TRUE] ELSE s

KeyUpChip8(s, keycode) ==
    IF keycode \in DOMAIN KeyMap THEN [s EXCEPT !.key[KeyMap[keycode]] = FALSE] ELSE s

\* EventHandler::draw: the fields it leaves
DrawChip8(s) ==
    IF s.gfx_updated THEN [s EXCEPT !.gfx_updated = FALSE] ELSE s

\* EventHandler::draw: the grid on the screen after it, when shown was there
RenderChip8(s, shown) ==
    IF s.gfx_updated THEN s.gfx ELSE shown

----------------------------------------------------------------------------
(* The programs the model loads *)

\* skips taken and not taken, call, return, key-wait, key tests,
\* jump-indexed, then the word 5011 of no operation
ProgFlow ==
    << \H60, \H03,  \H30, \H03,  \H01, \H23,  \H40, \H03,
       \H50, \H10,  \H90, \H10,  \H01, \H23,  \H22, \H18,
       \HF1, \H0A,  \HE1, \H9E,  \HE1, \HA1,  \HB2, \H17,
       \H00, \HEE,  \H50, \H11 >>

\* a call inside a call, and the two returns
ProgNest ==
    << \H22, \H06,  \H12, \H02,  \H00, \H00,  \H22, \H0A,
       \H00, \HEE,  \H00, \HEE >>

\* key-wait into V0 and nothing else
ProgKey == << \HF0, \H0A >>

\* the legacy native call 0NNN
ProgNative == << \H01, \H23 >>

\* FX00, a word of no operation
ProgUndefined == << \HF0, \H00 >>

\* a return with nothing on the stack
ProgRet == << \H00, \HEE >>

\* a subroutine that calls itself
ProgCall == << \H22, \H00 >>

\* both timers set to 2, a key-wait, the sound timer set to 0 and then to 1
ProgTimer ==
    << \H60, \H02,  \HF0, \H15,  \HF0, \H18,  \HF2, \H0A,
       \H61, \H00,  \HF1, \H18,  \H61, \H01,  \HF1, \H18,
       \HF3, \H07,  \H12, \H12 >>

\* jump-indexed beyond the memory
ProgJumpIndexed == << \H60, \HFF,  \HBF, \HFF >>

\* a jump to the last byte of the memory
ProgJumpLast == << \H1F, \HFF >>

\* an instruction stored in the last two bytes, run, and then off the end
ProgRunOff ==
    << \H60, \H60,  \H61, \H00,  \HAF, \HFE,  \HF1, \H55,  \H1F, \HFE >>

\* index-relative accesses across the end of the memory
ProgBcdEnd == << \H60, \HCD,  \HAF, \HFE,  \HF0, \H33 >>
ProgStoreEnd == << \HAF, \HFF,  \HF1, \H55 >>
ProgLoadEnd == << \HAF, \HFF,  \HF1, \H65 >>
ProgDrawEnd == << \HAF, \HFF,  \HD0, \H02 >>

\* the index register driven to 65535 by 241 additions, then a draw
ProgDrawWrap ==
    << \H60, \HFF,  \HAF, \HFF >>
    \o [k \in 1..480 |-> IF k % 2 = 1 THEN \HF0 ELSE \H1E]
    \o << \H61, \HF0,  \HF1, \H1E,  \HD0, \H01 >>

\* a glyph drawn twice, the display cleared, and data stored and loaded
ProgDraw ==
    << \HA0, \H00,  \HD0, \H15,  \HD0, \H15,  \H00, \HE0,
       \H60, \HCD,  \HA3, \H00,  \HF0, \H33,  \HF2, \H65,
       \HA3, \H10,  \HF2, \H55,  \HC3, \H0F,  \H12, \H16 >>

\* a glyph drawn and left on the display while registers, index and memory
\* are worked on, a key is waited for and tested, and a jump loops
ProgLit ==
    << \HA0, \H00,  \HD0, \H05,  \H60, \H05,  \H70, \H01,
       \H80, \H14,  \HF0, \H29,  \HA3, \H00,  \HF0, \H33,
       \HF1, \H55,  \HF1, \H65,  \HF0, \H07,  \HF1, \H0A,
       \HE1, \H9E,  \H30, \H00,  \H80, \H10,  \H12, \H1E >>

Programs ==
    { ProgFlow, ProgNest, ProgKey, ProgNative, ProgUndefined, ProgRet, ProgCall,
      ProgTimer, ProgJumpIndexed, ProgJumpLast, ProgRunOff, ProgBcdEnd,
      ProgStoreEnd, ProgLoadEnd, ProgDrawEnd, ProgDrawWrap, ProgDraw, ProgLit }

\* main: the buffer [0u8; 0xDFF] with the file's bytes read into it
ProgMem(prog) ==
    [k \in 1..PROG_MEM_SIZE |-> IF k <= Len(prog) THEN prog[k] ELSE 0]

----------------------------------------------------------------------------
(* The state machine *)

Init ==
    /\ chip8 = DefaultChip8
    /\ elapsed = 0
    /\ phase = "constructed"
    /\ overflow_checks \in BOOLEAN
    /\ panicked = FALSE
    /\ err = NoErr
    /\ driver = "Running"
    /\ pre = DefaultChip8
    /\ last = NoCycle
    /\ rendered = DefaultChip8.gfx

\* main: chip8.reset()
Reset ==
    /\ phase = "constructed"
    /\ chip8' = ResetChip8(chip8)
    /\ elapsed' = 0
    /\ phase' = "reset"
    /\ pre' = chip8
    /\ last' = [NoCycle EXCEPT !.step = "reset"]
    /\ rendered' = chip8'.gfx
    /\ UNCHANGED <<overflow_checks, panicked, err, driver>>

\* main: chip8.load(&prog_mem, prog_len)
Load ==
    /\ phase = "reset"
    /\ \E prog \in Programs :
         /\ chip8' = LoadChip8(chip8, ProgMem(prog), Len(prog))
         /\ last' = [NoCycle EXCEPT !.step = "load", !.prog = prog,
                                    !.prog_len = Len(prog)]
    /\ phase' = "running"
    /\ pre' = chip8
    /\ UNCHANGED <<rendered, elapsed, overflow_checks, panicked, err, driver>>

\* EventHandler::update: one call of tick
Tick ==
    /\ phase = "running"
    /\ ~panicked
    /\ \E rnd \in (IF FetchesRandom(chip8) THEN RandomBytes ELSE {0}) :
         LET r == TickResult(chip8, rnd, elapsed) IN
         /\ chip8' = r.s
         /\ elapsed' = r.elapsed
         /\ panicked' = (r.err # NoErr)
         /\ err' = r.err
         /\ last' = r.info
         /\ driver' = IF r.info.flow = "Halt" THEN "Blocked" ELSE "Running"
    /\ pre' = chip8
    /\ UNCHANGED <<rendered, phase, overflow_checks>>

KeyDown ==
    /\ phase = "running"
    /\ ~panicked
    /\ \E keycode \in HostKeys : chip8' = KeyDownChip8(chip8, keycode)
    /\ pre' = chip8'
    /\ last' = NoCycle
    /\ UNCHANGED <<rendered, elapsed, phase, overflow_checks, panicked, err, driver>>

KeyUp ==
    /\ phase = "running"
    /\ ~panicked
    /\ \E keycode \in HostKeys : chip8' = KeyUpChip8(chip8, keycode)
    /\ pre' = chip8'
    /\ last' = NoCycle
    /\ UNCHANGED <<rendered, elapsed, phase, overflow_checks, panicked, err, driver>>

\* EventHandler::draw: with gfx_updated set the grid is rendered
Draw ==
    /\ phase = "running"
    /\ ~panicked
    /\ chip8' = DrawChip8(chip8)
    /\ rendered' = RenderChip8(chip8, rendered)
    /\ pre' = chip8'
    /\ last' = NoCycle
    /\ UNCHANGED <<elapsed, phase, overflow_checks, panicked, err, driver>>

\* the wall clock moves on
TimePasses ==
    /\ ~panicked
    /\ \E d \in ClockSteps :
         /\ elapsed + d <= MaxElapsedMs
         /\ elapsed' = elapsed + d
    /\ pre' = chip8
    /\ last' = NoCycle
    /\ UNCHANGED <<rendered, chip8, phase, overflow_checks, panicked, err, driver>>

Next ==
    \/ Reset
    \/ Load
    \/ Tick
    \/ KeyDown
    \/ KeyUp
    \/ Draw
    \/ TimePasses

Spec == Init /\ [][Next]_vars

----------------------------------------------------------------------------
(* The machine as a library: reset and load are public methods of Chip8,   *)
(* and a host may call them on a machine that has run, not only once at    *)
(* start-up as main does.                                                  *)

\* a buffer used to its last byte: a jump, zeroes, and a final byte
ProgFull ==
    [k \in 1..PROG_MEM_SIZE |->
        IF k = 1 THEN \H12 ELSE IF k = PROG_MEM_SIZE THEN \HEE ELSE 0]

\* the buffers a host loads and the lengths it gives with them: after a
\* reset any of them, on a running machine the one short program in full
HostPrograms(ph) == IF ph = "reset" THEN {ProgDraw, ProgFull} ELSE {ProgTimer}
HostLens(ph, prog) ==
    IF ph = "reset" THEN {0, 3, Len(prog), PROG_MEM_SIZE} ELSE {Len(prog)}

\* chip8.reset() on a machine that has been reset before.  The fields it
\* leaves are those main's reset leaves, from which every run of the model
\* starts, so the machine is followed no further than to another reset.
HostReset ==
    /\ phase \in {"reset", "running", "reloaded", "reset_again"}
    /\ ~panicked
    /\ chip8' = ResetChip8(chip8)
    /\ elapsed' = 0
    /\ phase' = "reset_again"
    /\ driver' = "Running"
    /\ pre' = chip8
    /\ last' = [NoCycle EXCEPT !.step = "reset"]
    /\ rendered' = chip8'.gfx
    /\ UNCHANGED <<overflow_checks, panicked, err>>

\* chip8.load(&prog_mem, prog_len) with any length the buffer has, after a
\* reset or on a machine that is running (which then runs no further cycle)
HostLoad ==
    /\ phase \in {"reset", "running"}
    /\ ~panicked
    /\ \E prog \in HostPrograms(phase) : \E len \in HostLens(phase, prog) :
         /\ chip8' = LoadChip8(chip8, ProgMem(prog), len)
         /\ last' = [NoCycle EXCEPT !.step = "load", !.prog = prog,
                                    !.prog_len = len]
    /\ phase' = IF phase = "reset" THEN "running" ELSE "reloaded"
    /\ pre' = chip8
    /\ UNCHANGED <<rendered, elapsed, overflow_checks, panicked, err, driver>>

NextApi ==
    \/ Next
    \/ HostReset
    \/ HostLoad

SpecApi == Init /\ [][NextApi]_vars

----------------------------------------------------------------------------
(* The machine running programs that put given values in given registers   *)
(* and then execute the instruction in question: no key is touched and no  *)
(* timer period passes while they run.                                     *)

\* the two bytes of an instruction word, from its four nibbles
Word(a, b, c, d) == << 16 * a + b, 16 * c + d >>

\* V0 = 10, V1 = 5, V0 += V1
ProgAdd == << \H60, \H0A,  \H61, \H05,  \H80, \H14 >>

\* the registers and the byte values the programs are built from
OpRegs == {0, 1, 14, 15}
OpBytes == {0, 1, 10, 20, 127, 128, 255}

\* 6XKK
LoadByte(x, kk) == Word(6, x, kk \div 16, kk % 16)

\* Vx = a, Vy = b, then 8XYn
AluProg(x, a, y, b, n) == LoadByte(x, a) \o LoadByte(y, b) \o Word(8, x, y, n)

AluPrograms ==
    { AluProg(x, a, y, b, n) :
        x \in OpRegs, a \in OpBytes, y \in OpRegs, b \in OpBytes,
        n \in {4, 5, 6, 7, 14} }

\* Vx = a, Vy = b, Vx -= Vy, Vx += Vy
SubAddProg(x, a, y, b) ==
    LoadByte(x, a) \o LoadByte(y, b) \o Word(8, x, y, 5) \o Word(8, x, y, 4)

SubAddPrograms ==
    { SubAddProg(x, a, y, b) :
        x \in OpRegs, a \in OpBytes, y \in OpRegs, b \in OpBytes }

\* ANNN
LoadIndex(nnn) == Word(10, nnn \div 256, (nnn \div 16) % 16, nnn % 16)

\* 60 f[0], 61 f[1], ..., 6F f[15]
SetAll(f) ==
    [k \in 1..(2 * NUM_REGS) |->
        IF k % 2 = 1 THEN 96 + (k - 1) \div 2 ELSE f[(k - 2) \div 2]]

\* the values the registers are given, the value they are overwritten with
\* after the store, and the addresses stored to: the font area, free memory,
\* and the last sixteen bytes and the last byte of the memory
RegValues ==
    { [r \in 0..(NUM_REGS - 1) |-> (17 * r + 1) % U8],
      [r \in 0..(NUM_REGS - 1) |-> 255 - r] }
Overwritten == [r \in 0..(NUM_REGS - 1) |-> 170]
StoreAddrs == {0, 768, 4080, 4095}

\* all registers set, I = a, FX55, all registers overwritten, I = a, FX65
StoreLoadProg(x, a, f) ==
    SetAll(f) \o LoadIndex(a) \o Word(15, x, 5, 5)
        \o SetAll(Overwritten) \o LoadIndex(a) \o Word(15, x, 6, 5)

StoreLoadPrograms ==
    { StoreLoadProg(x, a, f) :
        x \in 0..(NUM_REGS - 1), a \in StoreAddrs, f \in RegValues }

\* the registers, coordinates, glyphs and heights the draw programs use
DrawRegs == {0, 1, 15}
DrawColumns == {0, 2, 61, 255}
DrawLines == {0, 1, 30, 255}
DrawGlyphs == {0, 7}
DrawHeights == {1, 5, 15}

\* the glyph 0 drawn at (0, 0) through V2 and V3; then Vx = a, Vy = b and
\* I at the glyph g, a draw of n rows over what is there, a clear-display,
\* and the same draw twice
DrawProg(x, a, y, b, g, n) ==
    LoadByte(2, 0) \o LoadByte(3, 0) \o LoadIndex(0) \o Word(13, 2, 3, 5)
        \o LoadByte(x, a) \o LoadByte(y, b) \o LoadIndex(5 * g)
        \o Word(13, x, y, n)
        \o Word(0, 0, 14, 0)
        \o Word(13, x, y, n) \o Word(13, x, y, n)

DrawPrograms ==
    { DrawProg(x, a, y, b, g, n) :
        x \in DrawRegs, a \in DrawColumns, y \in DrawRegs, b \in DrawLines,
        g \in DrawGlyphs, n \in DrawHeights }

\* the values a key test finds in its register: key indices, and bytes
\* that are none
KeyTestValues == {0, 3, 15, 16, 19, 255}

\* Vx = v, then EX9E (kk = 0x9E) or EXA1 (kk = 0xA1)
KeyTestProg(x, v, kk) == LoadByte(x, v) \o Word(14, x, kk \div 16, kk % 16)

KeyTestPrograms ==
    { KeyTestProg(x, v, kk) : x \in {0, 15}, v \in KeyTestValues, kk \in {158, 161} }

OpsPrograms ==
    {ProgAdd} \cup AluPrograms \cup SubAddPrograms \cup StoreLoadPrograms
        \cup DrawPrograms \cup KeyTestPrograms

\* main: chip8.load(&prog_mem, prog_len) of one of these programs
LoadOps ==
    /\ phase = "reset"
    /\ \E prog \in OpsPrograms :
         /\ chip8' = LoadChip8(chip8, ProgMem(prog), Len(prog))
         /\ last' = [NoCycle EXCEPT !.step = "load", !.prog = prog,
                                    !.prog_len = Len(prog)]
    /\ phase' = "running"
    /\ pre' = chip8
    /\ UNCHANGED <<rendered, elapsed, overflow_checks, panicked, err, driver>>

NextOps ==
    \/ Reset
    \/ LoadOps
    \/ Tick

SpecOps == Init /\ [][NextOps]_vars

----------------------------------------------------------------------------
(* The decoder applied to every instruction word, and the machine running  *)
(* programs of one word that is no instruction.                            *)

\* the words a u16 holds
Words == 0..(U16 - 1)

\* words with the leading nibble of an instruction but not its pattern
UndefinedWords ==
    { \H5011, \H500F, \H9011, \H912F, \H8008, \H812D, \H800F,
      \HE000, \HE09F, \HE1A0, \HF000, \HF009, \HF166, \HFFFF }

\* Inst::from(opcode) on any word
DecodeWord ==
    /\ phase = "constructed"
    /\ \E opcode \in Words :
         LET d == Decode(opcode) IN
         /\ last' = [NoCycle EXCEPT !.step = "decode", !.opcode = opcode,
                                    !.inst = d.inst]
         /\ panicked' = (d.err # NoErr)
         /\ err' = d.err
    /\ phase' = "decoded"
    /\ pre' = chip8
    /\ UNCHANGED <<rendered, chip8, elapsed, overflow_checks, driver>>

\* main: chip8.load(&prog_mem, prog_len) of a program of one such word
LoadWord ==
    /\ phase = "reset"
    /\ \E w \in UndefinedWords :
         LET prog == << w \div 256, w % 256 >> IN
         /\ chip8' = LoadChip8(chip8, ProgMem(prog), Len(prog))
         /\ last' = [NoCycle EXCEPT !.step = "load", !.prog = prog,
                                    !.prog_len = Len(prog)]
    /\ phase' = "running"
    /\ pre' = chip8
    /\ UNCHANGED <<rendered, elapsed, overflow_checks, panicked, err, driver>>

NextDecode ==
    \/ DecodeWord
    \/ Reset
    \/ LoadWord
    \/ Tick

SpecDecode == Init /\ [][NextDecode]_vars

----------------------------------------------------------------------------
(* The claims.  A state with last.step = "tick" is the state a cycle left: *)
(* `pre` holds the fields before that cycle and `last` what it fetched,    *)
(* decoded and returned.                                                   *)

\* the last step was a cycle, and it ended without a panic
CycleDone == last.step = "tick" /\ ~panicked

JumpOps == {"Op1NNN", "Op2NNN", "Op00EE", "OpBNNN"}

\* the address a jump, call, return or jump-indexed names, from the fields before
JumpTarget(s, inst) ==
    CASE inst.op = "Op1NNN" -> inst.nnn
      [] inst.op = "Op2NNN" -> inst.nnn
      [] inst.op = "Op00EE" -> s.stack[s.sp - 1]
      [] inst.op = "OpBNNN" -> s.v[0] + inst.nnn

\* the skip condition of the instruction holds in the fields before
SkipHolds(s, inst) ==
    \/ inst.op = "Op3XKK" /\ s.v[inst.x] = inst.kk
    \/ inst.op = "Op4XKK" /\ s.v[inst.x] # inst.kk
    \/ inst.op = "Op5XY0" /\ s.v[inst.x] = s.v[inst.y]
    \/ inst.op = "Op9XY0" /\ s.v[inst.x] # s.v[inst.y]
    \/ inst.op = "OpEX9E" /\ s.key[s.v[inst.x]]
    \/ inst.op = "OpEXA1" /\ ~s.key[s.v[inst.x]]

\* key-wait with no key held
RetryHolds(s, inst) ==
    inst.op = "OpFX0A" /\ \A k \in 0..(NUM_KEYS - 1) : ~s.key[k]

\* C1: after every cycle that completes without a fatal error, with p the
\* program counter before it, the program counter is the target address if the
\* operation is jump, call, return or jump-indexed (Jump), p + 4 if a skip
\* condition holds (Skip), p if key-wait found no held key (Retry), and p + 2
\* in every other case (Advance); and the Flow returned is the one of that case.
C1_ProgramCounterEffect ==
    CycleDone =>
        LET p == pre.pc
            inst == last.inst
        IN  IF inst.op \in JumpOps
            THEN last.flow = "Jump" /\ chip8.pc = JumpTarget(pre, inst)
            ELSE IF SkipHolds(pre, inst)
            THEN last.flow = "Skip" /\ chip8.pc = p + 4
            ELSE IF RetryHolds(pre, inst)
            THEN last.flow = "Halt" /\ chip8.pc = p
            ELSE last.flow = "Next" /\ chip8.pc = p + 2

\* a cycle whose skip condition held has ended
C1_Witness ==
    /\ CycleDone
    /\ SkipHolds(pre, last.inst)
    /\ chip8.pc = pre.pc + 4


\* the word at the program counter
WordAtPc(s) == MemAt(s.mem, s.pc) * 256 + MemAt(s.mem, s.pc + 1)

\* C2: the machine is Blocked-on-key only after a key-wait cycle that saw no
\* held key, with the program counter still on that key-wait instruction; no
\* other operation returns Retry; and a cycle that starts Blocked with at least
\* one key held ends Running, with the program counter past the key-wait.
C2_BlockedOnKey ==
    /\ driver = "Blocked" =>
          /\ ~panicked
          /\ InstOp(WordAtPc(chip8)) = "OpFX0A"
    /\ last.step = "tick" =>
          /\ (driver = "Blocked") = (last.flow = "Halt")
          /\ last.flow = "Halt" =>
                /\ last.inst.op = "OpFX0A"
                /\ \A k \in 0..(NUM_KEYS - 1) : ~pre.key[k]
                /\ chip8.pc = pre.pc
          /\ (last.was_blocked /\ \E k \in 0..(NUM_KEYS - 1) : pre.key[k]) =>
                /\ ~panicked
                /\ driver = "Running"
                /\ last.inst.op = "OpFX0A"
                /\ chip8.pc = pre.pc + 2

\* a cycle that started Blocked with a key held has ended Running
C2_Witness ==
    /\ last.step = "tick"
    /\ last.was_blocked
    /\ \E k \in 0..(NUM_KEYS - 1) : pre.key[k]
    /\ driver = "Running"
    /\ chip8.pc = pre.pc + 2

\* C3: a cycle that executes key-wait into register x, if no key is held,
\* leaves registers, index register, memory, call stack, stack pointer,
\* display, keys and program counter as they were; if a key is held, it sets
\* register x to the lowest index of a held key, changes no other register
\* and advances the program counter by 2.
C3_KeyWaitFrame ==
    (last.step = "tick" /\ last.inst.op = "OpFX0A") =>
        LET held == {k \in 0..(NUM_KEYS - 1) : pre.key[k]} IN
        /\ ~panicked
        /\ held = {} =>
              /\ chip8.v = pre.v
              /\ chip8.i = pre.i
              /\ chip8.mem = pre.mem
              /\ chip8.stack = pre.stack
              /\ chip8.sp = pre.sp
              /\ chip8.gfx = pre.gfx
              /\ chip8.key = pre.key
              /\ chip8.pc = pre.pc
        /\ held # {} =>
              /\ chip8.v[last.inst.x] \in held
              /\ \A k \in held : chip8.v[last.inst.x] <= k
              /\ \A r \in 0..(NUM_REGS - 1) :
                    r # last.inst.x => chip8.v[r] = pre.v[r]
              /\ chip8.pc = pre.pc + 2

\* key-wait has run with two keys held and has taken the lower one
C3_Witness ==
    /\ last.step = "tick"
    /\ last.inst.op = "OpFX0A"
    /\ pre.key[0] /\ pre.key[3]
    /\ chip8.v[last.inst.x] = 0
    /\ chip8.pc = pre.pc + 2


\* the last cycle fetched a word that the decoder matched with no operation
DecodeFailed == last.step = "tick" /\ last.inst.op = "Panic"

\* C4: when the fetched word matches none of the defined operations, the
\* cycle ends in an error that carries the offending word and the program
\* counter value, and no component of the machine state, the program counter
\* included, differs from its value before the cycle.
C4_DecodeFailureClaim ==
    (DecodeFailed /\ Nibbles(last.opcode)[1] # 0) =>
        /\ panicked
        /\ \E k \in DOMAIN err.args : err.args[k] = last.opcode
        /\ Len(err.args) >= 2
        /\ \E k \in DOMAIN err.args : err.args[k] = pre.pc
        /\ chip8 = pre

\* the words 5XY1 and FX00 the claim gives as words of no operation at all
GenericUndefinedWords == {\H5011, \HF000}

\* C5: a word with leading nibble 0 other than 00E0 and 00EE (0NNN) is
\* rejected with an error outcome that differs in kind from the outcome of a
\* word that matches no operation at all, such as 5XY1 or FX00.
C5_NativeCallDistinctClaim ==
    (DecodeFailed /\ Nibbles(last.opcode)[1] = 0) =>
        /\ panicked
        /\ \A w \in GenericUndefinedWords : err.kind # Decode(w).err.kind

\* C6: in every reachable state the stack pointer is within 0..16; a return
\* executed with an empty call stack and a call executed with 16 saved
\* return addresses each end in a fatal error and leave the stack pointer
\* where it was.
C6_StackPointerClaim ==
    /\ chip8.sp \in 0..STACK_SIZE
    /\ (last.step = "tick" /\ last.inst.op = "Op00EE" /\ pre.sp = 0) =>
          panicked /\ chip8.sp = pre.sp
    /\ (last.step = "tick" /\ last.inst.op = "Op2NNN" /\ pre.sp = STACK_SIZE) =>
          panicked /\ chip8.sp = pre.sp


\* the memory cells a cycle has to touch, from the fields before it: the two
\* cells of the fetch and, once the word is decoded, the cells at the index
\* register that draw, store-bcd, store-registers and load-registers name
CellsOfFetch(s) == {s.pc, s.pc + 1}

CellsOfIndex(s, inst) ==
    CASE inst.op = "OpDXYN" -> {s.i + k : k \in 0..(inst.n - 1)}
      [] inst.op = "OpFX33" -> {s.i, s.i + 1, s.i + 2}
      [] inst.op \in {"OpFX55", "OpFX65"} -> {s.i + k : k \in 0..inst.x}
      [] OTHER -> {}

InMemory(cells) == cells \subseteq 0..(MEM_SIZE - 1)

\* the panics of an index or a range that is out of bounds
BoundsErrors ==
    {"IndexOutOfBounds", "SliceEndOutOfRange", "SliceIndexOrder", "ArithmeticOverflow"}

\* C7: no cycle reads or writes a memory cell outside 0..4095: memory has no
\* cell outside that range, and whenever the fetch (cells pc and pc + 1) or an
\* index-relative access (draw I..I+n-1, store-bcd I..I+2, store- and
\* load-registers I..I+x) would fall outside it, the cycle ends in a fatal
\* bounds error, the one policy of all these operations, and no cell that the
\* access did not name has changed.
C7_MemoryBounds ==
    /\ InMemory(DOMAIN chip8.mem)
    /\ last.step = "tick" =>
          /\ ~InMemory(CellsOfFetch(pre)) =>
                /\ panicked
                /\ err.kind \in BoundsErrors
                /\ chip8.mem = pre.mem
          /\ (InMemory(CellsOfFetch(pre)) /\ ~InMemory(CellsOfIndex(pre, last.inst))) =>
                /\ panicked
                /\ err.kind \in BoundsErrors
                /\ \A a \in 0..(MEM_SIZE - 1) :
                      a \notin CellsOfIndex(pre, last.inst) =>
                          MemAt(chip8.mem, a) = MemAt(pre.mem, a)

\* a draw with the index register at 65535 has ended in a fatal error
C7_Witness ==
    /\ last.step = "tick"
    /\ last.inst.op = "OpDXYN"
    /\ pre.i = 65535
    /\ ~InMemory(CellsOfIndex(pre, last.inst))
    /\ panicked

\* C8: a call at address p with fewer than 16 saved addresses saves p + 2 in
\* the stack slot at the stack pointer, increases the stack pointer by 1 and
\* sets the program counter to nnn; a return with a saved address sets the
\* program counter to the address saved last, with no further advance, and
\* decreases the stack pointer by 1; no cycle changes a saved address below
\* the stack pointer, and no other operation changes the stack pointer: so
\* the return that matches a call resumes at p + 2 with the stack pointer the
\* call found, last in, first out.
C8_CallReturn ==
    /\ (CycleDone /\ last.inst.op = "Op2NNN") =>
          /\ pre.sp < STACK_SIZE
          /\ chip8.stack = [pre.stack EXCEPT ![pre.sp] = pre.pc + 2]
          /\ chip8.sp = pre.sp + 1
          /\ chip8.pc = last.inst.nnn
    /\ (CycleDone /\ last.inst.op = "Op00EE") =>
          /\ pre.sp > 0
          /\ chip8.pc = pre.stack[pre.sp - 1]
          /\ chip8.sp = pre.sp - 1
          /\ chip8.stack = pre.stack
    /\ (CycleDone /\ last.inst.op \notin {"Op2NNN", "Op00EE"}) =>
          /\ chip8.sp = pre.sp
          /\ chip8.stack = pre.stack
    /\ CycleDone =>
          \A k \in 0..(STACK_SIZE - 1) :
              (k < chip8.sp /\ k < pre.sp) => chip8.stack[k] = pre.stack[k]

\* the return of the inner of two nested calls has resumed its caller, which
\* is itself a subroutine: the word before the resumed address is a call
C8_Witness ==
    /\ CycleDone
    /\ last.inst.op = "Op00EE"
    /\ pre.sp = 2
    /\ chip8.sp = 1
    /\ chip8.pc = pre.stack[1]
    /\ InstOp(MemAt(chip8.mem, chip8.pc - 2) * 256
              + MemAt(chip8.mem, chip8.pc - 1)) = "Op2NNN"

\* the 1/60-second intervals that fit in ms milliseconds
IntervalsElapsed(ms) == (ms * 60) \div 1000

\* a timer value after k ticks
AfterTicks(t, k) == IF t >= k THEN t - k ELSE 0

\* C9: a timer tick decreases each of delay_timer and sound_timer by exactly 1
\* if it is nonzero and leaves it 0 if it is zero; a cycle applies one tick for
\* every 1/60-second interval that has elapsed since the previous tick,
\* whatever instruction it executed and also when it ended in Retry.
C9_TimerRateClaim ==
    CycleDone =>
        /\ chip8.dt = AfterTicks(last.dt_exec, IntervalsElapsed(last.elapsed))
        /\ chip8.st = AfterTicks(last.st_exec, IntervalsElapsed(last.elapsed))

\* C10: the audible-event signal is emitted in a cycle if and only if the
\* timer tick of that cycle takes sound_timer from 1 to 0.
C10_BeepOnce ==
    last.step = "tick" =>
        (last.beep <=> (/\ ~panicked
                        /\ last.fired
                        /\ last.st_exec = 1
                        /\ chip8.st = 0))

\* a cycle has emitted the signal
C10_Witness ==
    /\ last.step = "tick"
    /\ last.beep
    /\ last.st_exec = 1
    /\ chip8.st = 0


----------------------------------------------------------------------------
(* Reset and load.  A state with last.step = "reset" or "load" is the      *)
(* state that call left, and `pre` holds the fields before the call.       *)

\* the glyph of the hexadecimal digit d: the five bytes at 5 * d
Glyph(mem, d) == [k \in 1..5 |-> MemAt(mem, 5 * d + k - 1)]

\* C11: from any state, reset leaves all 16 registers, the index register,
\* the stack pointer, all 16 stack slots, both timers and every display cell
\* zero or false, the program counter 0x200, the 16 five-byte font glyphs in
\* the order 0..F in the memory cells 0..79 and every memory cell 80..4095
\* zero; and a reset of the state a reset left gives that same state.
C11_ResetConfiguration ==
    last.step = "reset" =>
        /\ \A r \in 0..15 : chip8.v[r] = 0
        /\ chip8.i = 0
        /\ chip8.sp = 0
        /\ \A k \in 0..15 : chip8.stack[k] = 0
        /\ chip8.dt = 0 /\ chip8.st = 0
        /\ \A p \in 0..2047 : ~GfxAt(chip8.gfx, p)
        /\ chip8.pc = 512
        /\ \A d \in 0..15 : Glyph(chip8.mem, d) = SubSeq(FontSet, 5 * d + 1, 5 * d + 5)
        /\ Len(FontSet) = 80
        /\ \A a \in 80..4095 : MemAt(chip8.mem, a) = 0
        /\ ResetChip8(chip8) = chip8

\* a reset of a machine that had a program in memory, had run it and had
\* registers and index set and data stored
C11_Witness ==
    /\ last.step = "reset"
    /\ MemAt(pre.mem, 512) # 0
    /\ MemAt(pre.mem, 768) # 0
    /\ pre.v[0] # 0
    /\ pre.i # 0
    /\ pre.pc # 512
    /\ chip8.gfx = {}
    /\ MemAt(chip8.mem, 512) = 0


\* the fields are those a reset leaves
IsResetState(s) == s = ResetChip8(s)

\* C12: after a load of a buffer with the length len (0 <= len <= 0xDFF) the
\* memory cell 0x200 + k holds the byte k of the buffer for every k < len, the
\* cells 0..0x1FF (the font glyphs among them) are as they were, no other
\* component of the machine state has changed, and, when the load follows a
\* reset, every cell from 0x200 + len up to 4095 is zero.
C12_LoadEffect ==
    (last.step = "load" /\ last.prog_len \in 0..3583) =>
        LET len == last.prog_len
            buf == ProgMem(last.prog)
        IN  /\ \A k \in 0..(len - 1) : MemAt(chip8.mem, 512 + k) = buf[k + 1]
            /\ \A a \in 0..511 : MemAt(chip8.mem, a) = MemAt(pre.mem, a)
            /\ [chip8 EXCEPT !.mem = pre.mem] = pre
            /\ IsResetState(pre) =>
                   \A a \in (512 + len)..4095 : MemAt(chip8.mem, a) = 0

\* a load after a reset with a length shorter than the bytes in the buffer
C12_Witness ==
    /\ last.step = "load"
    /\ IsResetState(pre)
    /\ last.prog_len = 3
    /\ ProgMem(last.prog)[4] # 0
    /\ MemAt(chip8.mem, 514) = ProgMem(last.prog)[3]
    /\ MemAt(chip8.mem, 514) # 0
    /\ MemAt(chip8.mem, 515) = 0


----------------------------------------------------------------------------
(* Programs run from the reset configuration *)

\* the bytes of prog are in memory from 0x200 on
Holds(s, prog) == \A k \in 1..Len(prog) : MemAt(s.mem, 511 + k) = prog[k]

\* the fields after n cycles from s, with no timer period passing
RECURSIVE Run(_, _)
Run(s, n) == IF n = 0 THEN s ELSE TickResult(Run(s, n - 1), 0, 0).s

\* C13: from the reset configuration with the bytes 60 0A 61 05 80 14 at
\* 0x200..0x205, exactly 3 cycles end with register 0 equal to 15, register 1
\* equal to 5, the flag register equal to 0 and the program counter 0x206.
C13_AddScenario ==
    LET prog == << 96, 10, 97, 5, 128, 20 >>
        done(s) == s.v[0] = 15 /\ s.v[1] = 5 /\ s.v[15] = 0 /\ s.pc = 518
    IN  /\ (last.step = "load" /\ IsResetState(pre) /\ last.prog = prog) =>
               /\ Holds(chip8, prog)
               /\ done(Run(chip8, 3))
               /\ \A n \in 0..2 : Run(chip8, n).pc = 512 + 2 * n
        /\ (Holds(chip8, prog) /\ CycleDone /\ chip8.pc = 518) => done(chip8)

\* the third cycle of that program has run
C13_Witness ==
    /\ Holds(chip8, << 96, 10, 97, 5, 128, 20 >>)
    /\ CycleDone
    /\ last.inst.op = "Op8XY4"
    /\ pre.pc = 516 /\ pre.v[0] = 10 /\ pre.v[1] = 5
    /\ chip8.pc = 518 /\ chip8.v[0] = 15


\* C14: for distinct registers x and y, neither the flag register, holding a
\* and b: sub x,y and then immediately add x,y leaves a in x and b in y, and
\* the flag register holds the outcome of the add alone, 1 if
\* ((a - b) mod 256) + b exceeds 255 and 0 otherwise.
C14_SubThenAdd ==
    LET x == MemAt(chip8.mem, 512) % 16
        a == MemAt(chip8.mem, 513)
        y == MemAt(chip8.mem, 514) % 16
        b == MemAt(chip8.mem, 515)
    IN  ( /\ Holds(chip8, SubAddProg(x, a, y, b))
          /\ x # y /\ x # 15 /\ y # 15
          /\ CycleDone /\ pre.pc = 518 /\ chip8.pc = 520 ) =>
            /\ chip8.v[x] = a
            /\ chip8.v[y] = b
            /\ chip8.v[15] = IF ((a - b) % 256) + b > 255 THEN 1 ELSE 0

\* the add has run after a sub that borrowed: 10 - 20 and back
C14_Witness ==
    /\ Holds(chip8, SubAddProg(0, 10, 1, 20))
    /\ CycleDone /\ pre.pc = 518 /\ chip8.pc = 520
    /\ last.inst.op = "Op8XY4"
    /\ pre.v[0] = 246 /\ pre.v[15] = 0
    /\ chip8.v[0] = 10 /\ chip8.v[1] = 20 /\ chip8.v[15] = 1


----------------------------------------------------------------------------
(* The arithmetic instructions.  After a cycle, x and y are the register   *)
(* indices of the instruction and a and b what they held before it.        *)

\* C17: for every x and y in 0..15, 0xF included, with a in x and b in y,
\* after add reg,reg the flag register holds 1 if a + b exceeds 255 and 0
\* otherwise, and register x, when x is not 0xF, holds (a + b) mod 256.
C17_AddClaim ==
    (CycleDone /\ last.inst.op = "Op8XY4") =>
        LET x == last.inst.x
            a == pre.v[x]
            b == pre.v[last.inst.y]
        IN  /\ chip8.v[15] = IF a + b > 255 THEN 1 ELSE 0
            /\ x # 15 => chip8.v[x] = (a + b) % 256

\* C18: for every x and y in 0..15, 0xF included, with a in x and b in y:
\* after sub x,y the flag register holds 1 if a >= b and 0 otherwise and
\* register x, when x is not 0xF, holds (a - b) mod 256; after subn x,y the
\* flag register holds 1 if b >= a and 0 otherwise and register x, when x is
\* not 0xF, holds (b - a) mod 256.
C18_SubClaim ==
    LET x == last.inst.x
        a == pre.v[x]
        b == pre.v[last.inst.y]
    IN  /\ (CycleDone /\ last.inst.op = "Op8XY5") =>
               /\ chip8.v[15] = IF a >= b THEN 1 ELSE 0
               /\ x # 15 => chip8.v[x] = (a - b) % 256
        /\ (CycleDone /\ last.inst.op = "Op8XY7") =>
               /\ chip8.v[15] = IF b >= a THEN 1 ELSE 0
               /\ x # 15 => chip8.v[x] = (b - a) % 256

\* C19: for every x in 0..15, 0xF included, with a in x: after shift-right
\* the flag register holds the least-significant bit a had and register x,
\* when x is not 0xF, holds a div 2; after shift-left the flag register holds
\* the most-significant bit a had and register x, when x is not 0xF, holds
\* (2 * a) mod 256.
C19_ShiftClaim ==
    LET x == last.inst.x
        a == pre.v[x]
    IN  /\ (CycleDone /\ last.inst.op = "Op8XY6") =>
               /\ chip8.v[15] = a % 2
               /\ x # 15 => chip8.v[x] = a \div 2
        /\ (CycleDone /\ last.inst.op = "Op8XYE") =>
               /\ chip8.v[15] = a \div 128
               /\ x # 15 => chip8.v[x] = (2 * a) % 256


----------------------------------------------------------------------------
(* Store-registers and load-registers *)

\* the cells of m1 and m2 outside cells are the same
SameMemOutside(m1, m2, cells) ==
    \A c \in ((DOMAIN m1) \cup (DOMAIN m2)) \ cells : MemAt(m1, c) = MemAt(m2, c)

\* C16: for every x in 0..15 and every index value a with a + x <= 4095:
\* store-registers x writes the registers 0..x to the memory cells a..a+x,
\* changes no other memory cell and no register and leaves the index register
\* at a + x + 1; load-registers x copies the cells a..a+x into the registers
\* 0..x, changes no register above x and no memory cell and leaves the index
\* register at a + x + 1; so a store at a followed by a load with the index
\* register set back to a reproduces the stored values of the registers 0..x.
C16_StoreLoad ==
    LET x == last.inst.x
        a == pre.i
    IN  /\ (last.step = "tick" /\ last.inst.op = "OpFX55" /\ a + x <= 4095) =>
               /\ ~panicked
               /\ \A k \in 0..x : MemAt(chip8.mem, a + k) = pre.v[k]
               /\ SameMemOutside(chip8.mem, pre.mem, a..(a + x))
               /\ chip8.v = pre.v
               /\ chip8.i = a + x + 1
        /\ (last.step = "tick" /\ last.inst.op = "OpFX65" /\ a + x <= 4095) =>
               /\ ~panicked
               /\ \A k \in 0..x : chip8.v[k] = MemAt(pre.mem, a + k)
               /\ \A r \in (x + 1)..15 : chip8.v[r] = pre.v[r]
               /\ chip8.mem = pre.mem
               /\ chip8.i = a + x + 1
        /\ \A f \in RegValues :
               ( /\ last.step = "tick" /\ last.inst.op = "OpFX65"
                 /\ pre.pc = 582
                 /\ a + x <= 4095
                 /\ Holds(chip8, StoreLoadProg(x, a, f)) ) =>
                   /\ \A r \in 0..x : chip8.v[r] = f[r]
                   /\ \A r \in (x + 1)..15 : chip8.v[r] = Overwritten[r]

\* registers 0..5 stored at 0x300, overwritten, and loaded back
C16_Witness ==
    /\ CycleDone
    /\ last.inst.op = "OpFX65" /\ last.inst.x = 5
    /\ pre.pc = 582
    /\ pre.i = 768 /\ chip8.i = 774
    /\ pre.v[5] = 170 /\ chip8.v[5] = 86 /\ MemAt(chip8.mem, 773) = 86
    /\ chip8.v[6] = 170
    /\ \E f \in RegValues : Holds(chip8, StoreLoadProg(5, 768, f))


----------------------------------------------------------------------------
(* Drawing *)

\* the instruction word at address a
WordAt(s, a) == 256 * MemAt(s.mem, a) + MemAt(s.mem, a + 1)

\* the draw starting at pre has its sprite bytes I..I+n-1 inside the memory
SpriteInMemory == pre.i + last.inst.n <= 4096

\* the sprite of the draw starting at pre has a set bit
SpriteNonzero ==
    \E r \in 0..(last.inst.n - 1) : MemAt(pre.mem, pre.i + r) # 0

\* C15: a clear-display and then a draw of a sprite with at least one set
\* bit (n in 1..15, the sprite bytes inside the memory) leaves the flag
\* register 0 after that first draw, for every x and y and every
\* coordinate; an immediately following second draw of the same sprite with
\* the same x and y sets the flag register to 1.
C15_ClearThenDraw ==
    LET first == /\ WordAt(pre, pre.pc - 2) = 224
                 /\ pre.gfx = {}
        second == /\ WordAt(pre, pre.pc - 4) = 224
                  /\ WordAt(pre, pre.pc - 2) = last.opcode
    IN  ( /\ last.step = "tick" /\ last.inst.op = "OpDXYN"
          /\ last.inst.n \in 1..15
          /\ SpriteInMemory /\ SpriteNonzero ) =>
            /\ ~panicked
            /\ first => chip8.v[15] = 0
            /\ second => chip8.v[15] = 1

\* the second draw after a clear-display, which erased what the first drew
C15_Witness ==
    /\ CycleDone /\ last.inst.op = "OpDXYN"
    /\ last.inst.n = 5 /\ SpriteNonzero
    /\ WordAt(pre, pre.pc - 4) = 224
    /\ WordAt(pre, pre.pc - 2) = last.opcode
    /\ pre.v[15] = 0 /\ pre.gfx # {}
    /\ chip8.v[15] = 1 /\ chip8.gfx = {}


\* the display cells a draw of n rows at I toggles when register x holds a
\* and register y holds b: column (a + c) mod 64, row (b + r) mod 32 for
\* every set bit c (most-significant bit = column 0) of every row r
Toggled(mem, i, n, a, b) ==
    { ((a + c) % 64) + 64 * ((b + r) % 32) :
        <<r, c>> \in { rc \in (0..(n - 1)) \X (0..7) :
                         (MemAt(mem, i + rc[1]) \div (2 ^ (7 - rc[2]))) % 2 = 1 } }

\* C20: for every draw with its sprite bytes I..I+n-1 inside the memory and
\* every x and y, 0xF included, with a and b the values of the registers x
\* and y before the instruction: exactly the display cells at column
\* (a + c) mod 64, row (b + r) mod 32 of the set bits of the sprite are
\* toggled, every other display cell is unchanged, and the flag register is
\* 1 if a toggled cell was set before the draw and 0 otherwise.
C20_DrawClaim ==
    ( /\ last.step = "tick" /\ last.inst.op = "OpDXYN" /\ SpriteInMemory ) =>
        LET t == Toggled(pre.mem, pre.i, last.inst.n,
                         pre.v[last.inst.x], pre.v[last.inst.y])
        IN  /\ ~panicked
            /\ chip8.gfx = (pre.gfx \ t) \cup (t \ pre.gfx)
            /\ chip8.v[15] = IF t \cap pre.gfx # {} THEN 1 ELSE 0


----------------------------------------------------------------------------
(* Key tests, decoding, and what a cycle and the host callbacks leave alone *)

\* C21: for every byte value v in register x and every state of the keys,
\* skip-if-key-down completes without error and returns Skip exactly when
\* the key v mod 16 is held (Next otherwise), and skip-if-key-up completes
\* without error and returns Skip exactly when the key v mod 16 is not held.
C21_KeyTestClaim ==
    (last.step = "tick" /\ last.inst.op \in {"OpEX9E", "OpEXA1"}) =>
        LET v == pre.v[last.inst.x]
            held == pre.key[v % 16]
        IN  /\ ~panicked
            /\ last.inst.op = "OpEX9E" =>
                   last.flow = IF held THEN "Skip" ELSE "Next"
            /\ last.inst.op = "OpEXA1" =>
                   last.flow = IF held THEN "Next" ELSE "Skip"


\* the instructions and the nibble pattern of each: for every nibble the
\* value it must have, or -1 where the nibble is an operand
Patterns ==
    [ Op00E0 |-> <<0, 0, 14, 0>>,    Op00EE |-> <<0, 0, 14, 14>>,
      Op1NNN |-> <<1, -1, -1, -1>>,  Op2NNN |-> <<2, -1, -1, -1>>,
      Op3XKK |-> <<3, -1, -1, -1>>,  Op4XKK |-> <<4, -1, -1, -1>>,
      Op5XY0 |-> <<5, -1, -1, 0>>,   Op6XKK |-> <<6, -1, -1, -1>>,
      Op7XKK |-> <<7, -1, -1, -1>>,  Op8XY0 |-> <<8, -1, -1, 0>>,
      Op8XY1 |-> <<8, -1, -1, 1>>,   Op8XY2 |-> <<8, -1, -1, 2>>,
      Op8XY3 |-> <<8, -1, -1, 3>>,   Op8XY4 |-> <<8, -1, -1, 4>>,
      Op8XY5 |-> <<8, -1, -1, 5>>,   Op8XY6 |-> <<8, -1, -1, 6>>,
      Op8XY7 |-> <<8, -1, -1, 7>>,   Op8XYE |-> <<8, -1, -1, 14>>,
      Op9XY0 |-> <<9, -1, -1, 0>>,   OpANNN |-> <<10, -1, -1, -1>>,
      OpBNNN |-> <<11, -1, -1, -1>>, OpCXKK |-> <<12, -1, -1, -1>>,
      OpDXYN |-> <<13, -1, -1, -1>>, OpEX9E |-> <<14, -1, 9, 14>>,
      OpEXA1 |-> <<14, -1, 10, 1>>,  OpFX07 |-> <<15, -1, 0, 7>>,
      OpFX0A |-> <<15, -1, 0, 10>>,  OpFX15 |-> <<15, -1, 1, 5>>,
      OpFX18 |-> <<15, -1, 1, 8>>,   OpFX1E |-> <<15, -1, 1, 14>>,
      OpFX29 |-> <<15, -1, 2, 9>>,   OpFX33 |-> <<15, -1, 3, 3>>,
      OpFX55 |-> <<15, -1, 5, 5>>,   OpFX65 |-> <<15, -1, 6, 5>> ]

\* the word w has the pattern of the instruction op
Matches(w, op) ==
    \A k \in 1..4 :
        Patterns[op][k] = -1
            \/ Patterns[op][k] = (w \div (2 ^ (4 * (4 - k)))) % 16

\* the word w has the leading nibble of an instruction but not its pattern
Undefined(w) ==
    LET hi == w \div 4096
        n == w % 16
        kk == w % 256
    IN  \/ hi \in {5, 9} /\ n # 0
        \/ hi = 8 /\ n \in {8, 9, 10, 11, 12, 13, 15}
        \/ hi = 14 /\ kk \notin {158, 161}
        \/ hi = 15 /\ kk \notin {7, 10, 21, 24, 30, 41, 51, 85, 101}

\* C22: decoding is total and exact over all 65536 words: each word yields
\* either exactly one operation, the one whose pattern it has, with the
\* operands x = bits 8..11, y = bits 4..7, n = bits 0..3, kk = bits 0..7 and
\* nnn = bits 0..11, or the error; the words with the leading nibble of an
\* operation but not its pattern (5XYn and 9XYn with n # 0, 8XYn with n in
\* 8..D or F, EXkk with kk not 9E or A1, FXkk with kk none of 07, 0A, 15,
\* 18, 1E, 29, 33, 55, 65) yield the error, and a cycle that fetches one
\* ends in the error with nothing executed.
C22_DecodeExact ==
    LET w == last.opcode
        i == last.inst
    IN  /\ last.step = "decode" =>
               /\ panicked <=> i.op = "Panic"
               /\ panicked => err = OpcodeNotSupported(w)
               /\ ~panicked =>
                      /\ i.op \in DOMAIN Patterns
                      /\ \A op \in DOMAIN Patterns : Matches(w, op) <=> op = i.op
               /\ panicked => \A op \in DOMAIN Patterns : ~Matches(w, op)
               /\ i.x = (w \div 256) % 16
               /\ i.y = (w \div 16) % 16
               /\ i.n = w % 16
               /\ i.kk = w % 256
               /\ i.nnn = w % 4096
               /\ Undefined(w) => panicked
        /\ (last.step = "tick" /\ Undefined(w)) =>
               /\ panicked
               /\ err = OpcodeNotSupported(w)
               /\ last.inst.op = "Panic"
               /\ chip8 = [pre EXCEPT !.pc = pre.pc + 2]

\* the decoder has refused 5XY1, and a cycle that fetched it has ended in
\* that error
C22_Witness ==
    /\ last.opcode = 20497
    /\ panicked
    /\ err = OpcodeNotSupported(20497)
    /\ last.step = "tick"
    /\ WordAt(pre, 512) = 20497
    /\ chip8.v = pre.v


\* the keys whose flag differs between k1 and k2
KeysChanged(k1, k2) == {k \in 0..15 : k1[k] # k2[k]}

C24_DirtyFlag ==
    /\ [](chip8.gfx # rendered => chip8.gfx_updated)
    /\ [][ Draw =>
             /\ chip8.gfx_updated => ~chip8'.gfx_updated
             /\ ~chip8.gfx_updated => chip8' = chip8
             /\ [chip8' EXCEPT !.gfx_updated = chip8.gfx_updated] = chip8
             /\ UNCHANGED <<elapsed, panicked, err, driver>>
             /\ rendered' = chip8.gfx
      ]_vars

\* a grid has been rendered, a later draw has changed the grid, and the
\* flag is set for the render to come
C24_Witness ==
    /\ rendered # {}
    /\ chip8.gfx # rendered
    /\ chip8.gfx_updated
    /\ CycleDone /\ last.inst.op = "OpDXYN"

====
